---------------------------- MODULE Spec2Model ----------------------------
(***************************************************************************)
(* Model of src/newsletter.py: the daily newsletter pipeline               *)
(* (feed adapter, scrape adapter, keyword matcher, session deduplicator,   *)
(* seen-URL store, summariser, main run).                                  *)
(*                                                                         *)
(* Text is modelled as a sequence of ASCII character codes, so that        *)
(* lower(), strip(), slicing and substring search are computed.            *)
(* A link is modelled as a natural number: link m sorts before link n in   *)
(* Python's string order exactly when m < n.                               *)
(***************************************************************************)
EXTENDS Integers, Sequences, FiniteSets, TLC

VARIABLES
    phase,        \* which operation of the program the behaviour exercises next
    articles,     \* summarise_articles: the list passed in
    api,          \* summarise_articles: what the generation service answers
    summarised,   \* summarise_articles: the list returned
    calls,        \* summarise_articles: the calls of client.messages.create made
    keywords,     \* config["keywords"]: the keyword rules
    max_age_days, \* fetch_rss_articles: the lookback main passes
    feeds,        \* fetch_rss_articles: the feeds and what feedparser yields
    rss_articles, \* fetch_rss_articles: the list returned
    scrape_config,    \* fetch_scraped_articles: the targets and their pages
    scraped_articles, \* fetch_scraped_articles: the list returned
    candidates,   \* deduplicate: the list passed in
    unique,       \* deduplicate: the list returned
    github,       \* main: GITHUB_TOKEN and GITHUB_REPOSITORY are both set
    store,        \* seen_urls.txt in the repository: exists, urls, sha
    pc,           \* main: where each run is
    seen_urls,    \* main: per run, the set load_seen_urls returned
    seen_sha,     \* main: per run, the sha load_seen_urls returned (0 is "")
    run_rss,      \* main: per run, rss_articles
    run_scraped,  \* main: per run, what fetch_scraped_articles returned
    new_scraped,  \* main: per run, new_scraped (scraped_articles from line 580 on)
    dedup_arg,    \* main: per run, the list passed to deduplicate
    all_articles, \* main: per run, all_articles
    new_url_set,  \* main: per run, the set passed to save_seen_urls
    save_ok,      \* per run, whether the PUT of save_seen_urls succeeded
    sha_at_load,  \* per run, the sha of the store when the run loaded it
    stale,        \* per run, whether the store had changed since the load when saving
    saved_links,  \* links delivered by the runs whose save succeeded so far
    runs_started  \* how many runs have started

summariseVars == <<articles, api, summarised, calls>>
adapterVars ==
    <<keywords, max_age_days, feeds, rss_articles, scrape_config, scraped_articles>>
dedupVars == <<candidates, unique>>
runVars ==
    <<github, store, pc, seen_urls, seen_sha, run_rss, run_scraped, new_scraped, dedup_arg,
      all_articles, new_url_set, save_ok, sha_at_load, stale, saved_links,
      runs_started>>
vars == <<phase, summariseVars, adapterVars, dedupVars, runVars>>

\* the variables of the operations a specification does not exercise
SummariseIdle == articles = <<>> /\ api = <<>> /\ summarised = <<>> /\ calls = <<>>
AdaptersIdle ==
    /\ keywords = <<>> /\ max_age_days = 0 /\ feeds = <<>> /\ rss_articles = <<>>
    /\ scrape_config = <<>> /\ scraped_articles = <<>>

DedupIdle == candidates = <<>> /\ unique = <<>>
RunsIdle ==
    /\ github = FALSE /\ store = [exists |-> FALSE, urls |-> {}, sha |-> 0]
    /\ pc = <<>> /\ seen_urls = <<>> /\ seen_sha = <<>> /\ run_rss = <<>>
    /\ run_scraped = <<>> /\ new_scraped = <<>> /\ dedup_arg = <<>> /\ all_articles = <<>>
    /\ new_url_set = <<>> /\ save_ok = <<>> /\ sha_at_load = <<>> /\ stale = <<>>
    /\ saved_links = {} /\ runs_started = 0

---------------------------------------------------------------------------
(* Bounds of the model *)

\* longest article list handed to the summariser
MaxArticles == 11
\* most keyword rules in the configuration
MaxKeywords == 2
\* most entries of a feed, most links of a scrape target
MaxEntries == 2
\* longest list handed to deduplicate on its own
MaxCandidates == 3
\* how many runs of main follow one another
MaxRuns == 2
\* how many answers of the generation service deviate from the expected one
MaxFaults == 2

---------------------------------------------------------------------------
(* Python string and dict primitives *)

\* str.lower() on one character with a code below 256: A-Z, and the capital
\* letters of Latin-1 (192-222 but the sign 215)
LowerChar(c) == IF c \in (65..90) \cup ((192..222) \ {215}) THEN c + 32 ELSE c

\* str.lower()
Lower(s) == [k \in 1..Len(s) |-> LowerChar(s[k])]

\* the characters str.strip() removes, those with str.isspace(): \t, \n, \v,
\* \f, \r, the separators FS, GS, RS, US, the space, NEL, the no-break space
\* and the Unicode spaces and line separators
IsSpace(c) ==
    c \in (9..13) \cup (28..32) \cup {133, 160, 5760} \cup (8192..8202)
           \cup {8232, 8233, 8239, 8287, 12288}

RECURSIVE LStrip(_)
LStrip(s) == IF s # <<>> /\ IsSpace(Head(s)) THEN LStrip(Tail(s)) ELSE s

RECURSIVE RStrip(_)
RStrip(s) ==
    IF s # <<>> /\ IsSpace(s[Len(s)]) THEN RStrip(SubSeq(s, 1, Len(s) - 1)) ELSE s

\* str.strip()
Strip(s) == RStrip(LStrip(s))

\* s[:n]
Take(s, n) == SubSeq(s, 1, IF Len(s) < n THEN Len(s) ELSE n)

\* `sub in s` for strings
Contains(sub, s) ==
    \E off \in 0..(Len(s) - Len(sub)) : SubSeq(s, off + 1, off + Len(sub)) = sub

\* dict.get(key, default)
Get(d, key, default) == IF key \in DOMAIN d THEN d[key] ELSE default

\* d[key] = value
SetKey(d, key, value) ==
    [x \in (DOMAIN d) \cup {key} |-> IF x = key THEN value ELSE d[x]]

\* the dict {}
EmptyDict == [x \in {} |-> <<>>]

---------------------------------------------------------------------------
(* 2. fetch_rss_articles *)

\* rss_matched_keywords without the restricted_groups condition
rss_matched_keywords_AnyGroup(title, summary, group, kws) ==
    LET text == Lower(title \o <<32>> \o summary)
        hits == SelectSeq(kws, LAMBDA kw : Contains(Lower(kw.keyword), text))
    IN  [n \in 1..Len(hits) |-> hits[n].keyword]

\* lines 155-160: the keywords matched by a feed entry
rss_matched_keywords(title, summary, group, kws) ==
    LET text == Lower(title \o <<32>> \o summary)
        hits == SelectSeq(kws, LAMBDA kw :
                    /\ Contains(Lower(kw.keyword), text)
                    /\ (kw.restricted_groups = {} \/ group \in kw.restricted_groups))
    IN  [n \in 1..Len(hits) |-> hits[n].keyword]

\* a time is a number of hours; an absent or None field is <<>>, a value <<t>>
HoursPerDay == 24
\* datetime.datetime.utcnow() of the run
Now == 10 * HoursPerDay

\* EntryPublished reading the primary date field only
EntryPublished_PrimaryOnly(entry) ==
    IF entry.published_parsed # <<>> THEN entry.published_parsed ELSE <<>>

\* lines 142-146: the publish time of an entry, <<>> when unknown
EntryPublished(entry) ==
    IF entry.published_parsed # <<>> THEN entry.published_parsed
    ELSE IF entry.updated_parsed # <<>> THEN entry.updated_parsed
    ELSE <<>>

\* line 169: published.strftime("%Y-%m-%d") if published else "unknown"
PublishedField(published) ==
    IF published # <<>> THEN <<"date", published[1] \div HoursPerDay>> ELSE <<"unknown">>

\* lines 141-172: the entries of one feed, appended to acc
RECURSIVE EntryLoop(_, _, _, _, _)
EntryLoop(feed, entries, kws, cutoff, acc) ==
    IF entries = <<>> THEN acc
    ELSE
      LET entry     == Head(entries)
          published == EntryPublished(entry)
          matched   == rss_matched_keywords(entry.title, entry.summary, feed.group, kws)
      IN  IF published # <<>> /\ published[1] < cutoff
            THEN EntryLoop(feed, Tail(entries), kws, cutoff, acc)
          ELSE IF matched # <<>>
            THEN EntryLoop(feed, Tail(entries), kws, cutoff,
                   Append(acc, [source           |-> feed.title,
                                group            |-> feed.group,
                                original_title   |-> entry.title,
                                original_summary |-> Take(entry.summary, 1000),
                                link             |-> entry.link,
                                published        |-> PublishedField(published),
                                matched_keywords |-> matched,
                                type             |-> "rss"]))
          ELSE EntryLoop(feed, Tail(entries), kws, cutoff, acc)

\* lines 134-175: the loop over the feeds; a feed that fails to parse is skipped
RECURSIVE FeedLoop(_, _, _, _)
FeedLoop(fs, kws, cutoff, acc) ==
    IF fs = <<>> THEN acc
    ELSE FeedLoop(Tail(fs), kws, cutoff,
           IF Head(fs).fails THEN acc
           ELSE EntryLoop(Head(fs), Head(fs).entries, kws, cutoff, acc))

\* fetch_rss_articles(feeds, keywords, max_age_days)
fetch_rss_articles(fs, kws, days) ==
    FeedLoop(fs, kws, Now - days * HoursPerDay, <<>>)

---------------------------------------------------------------------------
(* 3. fetch_scraped_articles *)

\* lines 277-282: the keywords matched by a scraped article
scraped_matched_keywords(link_title, text, group, kws) ==
    LET full_text == Lower(link_title \o <<32>> \o text)
        hits == SelectSeq(kws, LAMBDA kw :
                    /\ Contains(Lower(kw.keyword), full_text)
                    /\ (kw.restricted_groups = {} \/ group \in kw.restricted_groups))
    IN  [n \in 1..Len(hits) |-> hits[n].keyword]

\* line 288: link_title or article_url (a link shown as text is the text "#n")
TitleOrUrl(link_title, article_url) ==
    IF link_title # <<>> THEN link_title ELSE <<35, 48 + article_url>>

\* lines 268-296: the links of one target; link.text is what scrape_article
\* returns for the link (<<>> when the page cannot be fetched or parsed)
RECURSIVE LinkLoop(_, _, _, _)
LinkLoop(cfg, links, kws, st) ==
    IF links = <<>> THEN st
    ELSE
      LET link    == Head(links)
          matched == scraped_matched_keywords(link.link_title, link.text, cfg.group, kws)
          seen1   == st.seen_urls \cup {link.url}
      IN  IF link.url \in st.seen_urls
            THEN LinkLoop(cfg, Tail(links), kws, st)
          ELSE IF link.text = <<>>
            THEN LinkLoop(cfg, Tail(links), kws, [st EXCEPT !.seen_urls = seen1])
          ELSE IF matched # <<>>
            THEN LinkLoop(cfg, Tail(links), kws,
                   [seen_urls |-> seen1,
                    articles  |-> Append(st.articles,
                       [source           |-> cfg.name,
                        group            |-> cfg.group,
                        original_title   |-> TitleOrUrl(link.link_title, link.url),
                        original_summary |-> Take(link.text, 1000),
                        link             |-> link.url,
                        published        |-> <<"unknown">>,
                        matched_keywords |-> matched,
                        type             |-> "scraped"])])
          ELSE LinkLoop(cfg, Tail(links), kws, [st EXCEPT !.seen_urls = seen1])

\* lines 259-296: the loop over the targets
RECURSIVE TargetLoop(_, _, _)
TargetLoop(cfgs, kws, st) ==
    IF cfgs = <<>> THEN st
    ELSE TargetLoop(Tail(cfgs), kws, LinkLoop(Head(cfgs), Head(cfgs).links, kws, st))

\* fetch_scraped_articles(scrape_config, keywords)
fetch_scraped_articles(cfgs, kws) ==
    TargetLoop(cfgs, kws, [seen_urls |-> {}, articles |-> <<>>]).articles

---------------------------------------------------------------------------
(* 4. deduplicate *)

\* title_key with the title cut to 60 characters before it is trimmed
title_key_CutFirst(art) == Strip(Take(Lower(art.original_title), 60))

\* line 313: art["original_title"].lower().strip()[:60]
title_key(art) == Take(Strip(Lower(art.original_title)), 60)

\* lines 311-320: the loop, over the articles not yet visited
RECURSIVE DedupLoop(_, _)
DedupLoop(list, st) ==
    IF list = <<>> THEN st
    ELSE
      LET art == Head(list)
      IN  IF art.link \in st.seen_urls \/ title_key(art) \in st.seen_titles
            THEN DedupLoop(Tail(list), st)
            ELSE DedupLoop(Tail(list),
                   [seen_urls   |-> st.seen_urls \cup {art.link},
                    seen_titles |-> st.seen_titles \cup {title_key(art)},
                    unique      |-> Append(st.unique, art)])

\* deduplicate(articles)
deduplicate(list) ==
    DedupLoop(list, [seen_urls |-> {}, seen_titles |-> {}, unique |-> <<>>]).unique

---------------------------------------------------------------------------
(* 5. summarise_articles and the generation service it calls *)

\* batch_size
BatchSize == 10
\* a batch summary shorter than this is regenerated
MinSummaryLen == 20

\* An answer of the service deviates from the expected one in one of these
\* ways.  Of a batch request (at = number of the batch, from 1):
\*   batch_error   the request raises, or the text is not JSON
\*   batch_short   the JSON array lacks its last element
\*   batch_long    the JSON array has one element too many
\* of one element of a batch answer (at = position of the article, from 1):
\*   no_summary, short_summary, no_title, empty_title, not_object
\* of a single-article request (at = position of the article, from 1):
\*   retry_error   the request raises
\*   retry_blank   the text returned is whitespace
BatchFaults == {"batch_error", "batch_short", "batch_long"}
ElementFaults == {"no_summary", "short_summary", "no_title", "empty_title", "not_object"}
RetryFaults == {"retry_error", "retry_blank"}

\* the articles and batches whose answers may deviate
FaultPlaces == {1, 2, BatchSize, BatchSize + 1}
FaultBatches == {1, 2}

NoFault == [k |-> "none", at |-> 0]
Faults ==
    {NoFault}
    \cup [k : BatchFaults, at : FaultBatches]
    \cup [k : ElementFaults \cup RetryFaults, at : FaultPlaces]

\* a set of faults as a list (the order is immaterial: HasFault reads the
\* list as a set)
RECURSIVE ListOf(_)
ListOf(S) ==
    IF S = {} THEN <<>>
    ELSE LET x == CHOOSE y \in S : TRUE IN <<x>> \o ListOf(S \ {x})

HasFault(f, kind, at) == \E n \in 1..Len(f) : f[n].k = kind /\ f[n].at = at

\* texts the service generates for the article at position g
GenTitle(g) == <<84, 48 + g>>
GenSummary(g) ==
    [k \in 1..MinSummaryLen |-> IF k = 1 THEN 83 ELSE IF k = 2 THEN 48 + g ELSE 46]
RegenText(g) == <<32, 82, 48 + g, 32>>

\* element of a batch answer for the article at position g: a JSON object
\* with the keys "title" and "summary", unless a fault says otherwise
Element(f, g) ==
    IF HasFault(f, "not_object", g) THEN [object |-> FALSE, d |-> EmptyDict]
    ELSE LET keys == {"title", "summary"}
                     \ ((IF HasFault(f, "no_title", g) THEN {"title"} ELSE {})
                        \cup (IF HasFault(f, "no_summary", g) THEN {"summary"} ELSE {}))
         IN  [object |-> TRUE,
              d |-> [x \in keys |->
                IF x = "title"
                  THEN (IF HasFault(f, "empty_title", g) THEN <<>> ELSE GenTitle(g))
                  ELSE (IF HasFault(f, "short_summary", g)
                          THEN Take(GenSummary(g), MinSummaryLen - 1)
                          ELSE GenSummary(g))]]

\* json.loads(raw) for the batch of n articles starting after position i:
\* the parsed array (lines 361-380), or an exception raised
BatchAnswer(f, i, n) ==
    LET b == (i \div BatchSize) + 1
        m == IF HasFault(f, "batch_short", b) THEN n - 1
             ELSE IF HasFault(f, "batch_long", b) THEN n + 1 ELSE n
    IN  IF HasFault(f, "batch_error", b) THEN [raised |-> TRUE, value |-> <<>>]
        ELSE [raised |-> FALSE, value |-> [j \in 1..m |-> Element(f, i + j)]]

\* retry.content[0].text of a single-article request for position g
RetryAnswer(f, g) ==
    IF HasFault(f, "retry_error", g) THEN [raised |-> TRUE, value |-> <<>>]
    ELSE IF HasFault(f, "retry_blank", g) THEN [raised |-> FALSE, value |-> <<32, 10>>]
    ELSE [raised |-> FALSE, value |-> RegenText(g)]

\* ElementAt reading the element before the article's own
ElementAt_OffByOne(summaries, j) ==
    IF j > 1 /\ j <= Len(summaries) THEN summaries[j - 1]
    ELSE IF j = 1 /\ summaries # <<>> THEN summaries[1]
    ELSE [object |-> TRUE, d |-> EmptyDict]

\* line 383: s = summaries[j] if j < len(summaries) else {}
ElementAt(summaries, j) ==
    IF j <= Len(summaries) THEN summaries[j] ELSE [object |-> TRUE, d |-> EmptyDict]

\* Articles are Python dicts shared by reference: `heap` maps the position of
\* an article in the input list to its dict, `out` lists positions appended,
\* `calls` lists the calls of client.messages.create made so far.

\* lines 361 and 389, 405: the request for the batch after position i, and
\* the single-article request for position g
BatchCall(i) == <<"batch", (i \div BatchSize) + 1>>
SingleCall(g) == <<"single", g>>

\* lines 382-398: the loop over a parsed batch answer, from element j on
RECURSIVE AssignLoop(_, _, _, _, _, _)
AssignLoop(f, i, n, summaries, j, st) ==
    IF j > n THEN [raised |-> FALSE, st |-> st]
    ELSE
      LET g   == i + j
          art == st.heap[g]
      IN  IF ~ElementAt(summaries, j).object
            THEN [raised |-> TRUE, st |-> st]
          ELSE
            LET s       == ElementAt(summaries, j).d
                title   == Get(s, "title", art["original_title"])
                summary == Get(s, "summary", <<>>)
                art1    == SetKey(SetKey(art, "title", title), "summary", summary)
            IN  IF summary = <<>> \/ Len(summary) < MinSummaryLen
                  THEN IF RetryAnswer(f, g).raised
                         THEN [raised |-> TRUE,
                               st |-> [st EXCEPT !.heap[g] = art1,
                                                 !.calls = Append(@, SingleCall(g))]]
                         ELSE AssignLoop(f, i, n, summaries, j + 1,
                                [heap  |-> [st.heap EXCEPT ![g] =
                                              SetKey(art1, "summary", Strip(RetryAnswer(f, g).value))],
                                 out   |-> Append(st.out, g),
                                 calls |-> Append(st.calls, SingleCall(g))])
                  ELSE AssignLoop(f, i, n, summaries, j + 1,
                         [heap  |-> [st.heap EXCEPT ![g] = art1],
                          out   |-> Append(st.out, g),
                          calls |-> st.calls])

\* "[Resumo não disponível]"
Sentinel ==
    <<91, 82, 101, 115, 117, 109, 111, 32, 110, 227, 111, 32, 100, 105, 115,
      112, 111, 110, 237, 118, 101, 108, 93>>

\* lines 403-419: the handler of a failed batch, one request per article
RECURSIVE FallbackLoop(_, _, _, _, _)
FallbackLoop(f, i, n, j, st) ==
    IF j > n THEN st
    ELSE
      LET g    == i + j
          art  == SetKey(st.heap[g], "title", st.heap[g]["original_title"])
          art1 == IF RetryAnswer(f, g).raised
                    THEN SetKey(art, "summary", Sentinel)
                    ELSE SetKey(art, "summary", Strip(RetryAnswer(f, g).value))
      IN  FallbackLoop(f, i, n, j + 1,
            [heap  |-> [st.heap EXCEPT ![g] = art1],
             out   |-> Append(st.out, g),
             calls |-> Append(st.calls, SingleCall(g))])

\* SummariseBatch giving up a batch whose request failed
SummariseBatch_NoFallback(f, i, n, st) ==
    LET st1 == [st EXCEPT !.calls = Append(@, BatchCall(i))]
    IN  IF BatchAnswer(f, i, n).raised
          THEN st1
          ELSE LET r == AssignLoop(f, i, n, BatchAnswer(f, i, n).value, 1, st1)
               IN  IF r.raised THEN FallbackLoop(f, i, n, 1, r.st) ELSE r.st

\* lines 338-419: one batch, the n articles after position i
SummariseBatch(f, i, n, st) ==
    LET st1 == [st EXCEPT !.calls = Append(@, BatchCall(i))]
    IN  IF BatchAnswer(f, i, n).raised
          THEN FallbackLoop(f, i, n, 1, st1)
          ELSE LET r == AssignLoop(f, i, n, BatchAnswer(f, i, n).value, 1, st1)
               IN  IF r.raised THEN FallbackLoop(f, i, n, 1, r.st) ELSE r.st

\* lines 337-338: for i in range(0, len(articles), batch_size)
RECURSIVE BatchLoop(_, _, _, _)
BatchLoop(f, total, i, st) ==
    IF i >= total THEN st
    ELSE LET n == IF total - i < BatchSize THEN total - i ELSE BatchSize
         IN  BatchLoop(f, total, i + BatchSize, SummariseBatch(f, i, n, st))

\* lines 333-419: the articles, the list summarised and the calls made when
\* the loop over the batches ends
SummariseState(arts, f) ==
    BatchLoop(f, Len(arts), 0, [heap |-> arts, out |-> <<>>, calls |-> <<>>])

\* summarise_articles(articles, api_key), the service answering as f says
summarise_articles(arts, f) ==
    IF arts = <<>> THEN <<>>
    ELSE LET st == SummariseState(arts, f)
         IN  [k \in 1..Len(st.out) |-> st.heap[st.out[k]]]

\* the dicts of the list passed in when summarise_articles returns: it writes
\* title and summary into them (lines 384-385, 397, 413-418)
summarise_written(arts, f) ==
    IF arts = <<>> THEN arts ELSE SummariseState(arts, f).heap

\* the calls of client.messages.create summarise_articles makes, in order
summarise_calls(arts, f) ==
    IF arts = <<>> THEN <<>> ELSE SummariseState(arts, f).calls

---------------------------------------------------------------------------
(* Specification SpecSummarise: summarise_articles on every bounded input *)

\* original title of the article at position k ("O" and a character)
OrigTitle(k) == <<79, 48 + k>>

\* the list main passes: n articles, the one at position u (if any) a feed
\* entry without a title
InputArticles(n, u) ==
    [k \in 1..n |-> [link |-> k,
                     original_title |-> IF k = u THEN <<>> ELSE OrigTitle(k)]]

\* the sets of at most n elements of S
RECURSIVE SubsetsUpTo(_, _)
SubsetsUpTo(S, n) ==
    IF n = 0 THEN {{}}
    ELSE LET smaller == SubsetsUpTo(S, n - 1)
         IN  smaller \cup {T \cup {x} : T \in smaller, x \in S}

FaultLists == {ListOf(S) : S \in SubsetsUpTo(Faults \ {NoFault}, MaxFaults)}

InitSummarise ==
    /\ phase = "summarise"
    /\ \E n \in 0..MaxArticles, u \in 0..1 : articles = InputArticles(n, u)
    /\ api = <<>>
    /\ summarised = <<>>
    /\ calls = <<>>
    /\ AdaptersIdle
    /\ DedupIdle
    /\ RunsIdle

Summarise ==
    /\ phase = "summarise"
    /\ \E f \in FaultLists :
          /\ api' = f
          /\ summarised' = summarise_articles(articles, f)
          /\ calls' = summarise_calls(articles, f)
          /\ articles' = summarise_written(articles, f)
    /\ phase' = "summarised"
    /\ UNCHANGED <<adapterVars, dedupVars, runVars>>

NextSummarise == Summarise

SpecSummarise == InitSummarise /\ [][NextSummarise]_vars

---------------------------------------------------------------------------
(* Specification SpecAdapters: fetch_rss_articles and fetch_scraped_articles *)
(* on bounded configurations, feeds and pages                              *)

\* texts: "5G", "AI", "5g news", "Domain", "rain", "Fibre"
Kw5G == <<53, 71>>
KwAI == <<65, 73>>
Txt5gNews == <<53, 103, 32, 110, 101, 119, 115>>
TxtDomain == <<68, 111, 109, 97, 105, 110>>
TxtRain == <<114, 97, 105, 110>>
TxtFibre == <<70, 105, 98, 114, 101>>

Groups == {"G1", "G2"}

\* config["keywords"]: lists of distinct rules (load_config_from_sheet keeps
\* only rows with a non-empty keyword)
Rules ==
    {[keyword |-> Kw5G, restricted_groups |-> {}],
     [keyword |-> KwAI, restricted_groups |-> {"G1"}],
     [keyword |-> KwAI, restricted_groups |-> {"G2"}]}
KeywordLists ==
    {s \in UNION {[1..n -> Rules] : n \in 0..MaxKeywords} :
        \A a, b \in 1..Len(s) : a # b => s[a] # s[b]}

\* lists of at most n elements of S
ListsUpTo(S, n) == UNION {[1..m -> S] : m \in 0..n}

\* the members of list whose field `of` is k, in order
Of(list, k) == SelectSeq(list, LAMBDA x : x.of = k)

DistinctUrls(list) == \A a, b \in 1..Len(list) : a # b => list[a].url # list[b].url

\* publish times of feed entries: five days old, exactly three days old, an
\* hour old
Old == Now - 5 * HoursPerDay
Edge == Now - 3 * HoursPerDay
Recent == Now - 1
EntryTimes ==
    {<<<<>>, <<>>>>, <<<<Old>>, <<>>>>, <<<<Recent>>, <<>>>>, <<<<>>, <<Old>>>>,
     <<<<>>, <<Edge>>>>, <<<<Recent>>, <<Old>>>>, <<<<Old>>, <<Recent>>>>}

\* what feedparser yields: entries of feed 1 (group G1) and feed 2 (group G2,
\* which may fail to parse), the k-th entry overall having link k
FeedEntries ==
    [of : {1, 2}, times : EntryTimes, title : {Txt5gNews}, summary : {TxtRain}]
FeedsFrom(flat, fails2) ==
    LET entry(k) == [of               |-> flat[k].of,
                     published_parsed |-> flat[k].times[1],
                     updated_parsed   |-> flat[k].times[2],
                     title            |-> flat[k].title,
                     summary          |-> flat[k].summary,
                     link             |-> IF "link" \in DOMAIN flat[k] THEN flat[k].link ELSE k]
        all == [k \in 1..Len(flat) |-> entry(k)]
    IN  <<[title |-> "F1", group |-> "G1", fails |-> FALSE, entries |-> Of(all, 1)],
          [title |-> "F2", group |-> "G2", fails |-> fails2, entries |-> Of(all, 2)]>>

\* what the scraped sites yield: the links get_article_links returns for
\* target 1 (group G1) and target 2 (group G2): link texts longer than 5
\* characters, distinct urls within a target; and for each link the text
\* scrape_article returns (<<>> when the page cannot be fetched)
ScrapeLinks ==
    [of : {1, 2}, link_title : {Txt5gNews, TxtDomain}, url : {1, 2},
     text : {<<>>, TxtRain, TxtFibre}]
TargetsFrom(flat) ==
    <<[name |-> "S1", group |-> "G1", links |-> Of(flat, 1)],
      [name |-> "S2", group |-> "G2", links |-> Of(flat, 2)]>>

InitAdapters ==
    /\ phase \in {"rss", "scrape"}
    /\ keywords \in KeywordLists
    /\ max_age_days = 0
    /\ feeds = <<>>
    /\ rss_articles = <<>>
    /\ scrape_config = <<>>
    /\ scraped_articles = <<>>
    /\ SummariseIdle
    /\ DedupIdle
    /\ RunsIdle

FetchRss ==
    /\ phase = "rss"
    /\ \E days \in {1, 3}, flat \in ListsUpTo(FeedEntries, MaxEntries), fails2 \in BOOLEAN :
          /\ max_age_days' = days
          /\ feeds' = FeedsFrom(flat, fails2)
          /\ rss_articles' = fetch_rss_articles(FeedsFrom(flat, fails2), keywords, days)
    /\ phase' = "rss_done"
    /\ UNCHANGED <<keywords, scrape_config, scraped_articles, summariseVars, dedupVars, runVars>>

FetchScraped ==
    /\ phase = "scrape"
    /\ \E flat \in ListsUpTo(ScrapeLinks, MaxEntries) :
          /\ DistinctUrls(Of(flat, 1)) /\ DistinctUrls(Of(flat, 2))
          /\ scrape_config' = TargetsFrom(flat)
          /\ scraped_articles' = fetch_scraped_articles(TargetsFrom(flat), keywords)
    /\ phase' = "scrape_done"
    /\ UNCHANGED <<keywords, max_age_days, feeds, rss_articles, summariseVars, dedupVars, runVars>>

NextAdapters == FetchRss \/ FetchScraped

SpecAdapters == InitAdapters /\ [][NextAdapters]_vars

---------------------------------------------------------------------------
(* Specification SpecDedup: deduplicate on every bounded list *)

\* a text of n characters "x" followed by the character c
Padded(n, c) == [k \in 1..n + 1 |-> IF k <= n THEN 120 ELSE c]

\* titles: "5g news", "5G News" between the separator RS and a space (the
\* same key), "Domain", two titles of 61 characters that differ in the last
\* one only (the same key), and " " followed by the first of them (cut to 60
\* after the trim, the same key)
DedupTitles ==
    {Txt5gNews,
     <<30, 53, 71, 32, 78, 101, 119, 115, 32>>,
     TxtDomain,
     Padded(60, 97),
     Padded(60, 98),
     <<32>> \o Padded(60, 97)}

DedupArticles == [link : {1, 2}, original_title : DedupTitles]

InitDedup ==
    /\ phase = "dedup"
    /\ candidates \in ListsUpTo(DedupArticles, MaxCandidates)
    /\ unique = <<>>
    /\ SummariseIdle
    /\ AdaptersIdle
    /\ RunsIdle

Deduplicate ==
    /\ phase = "dedup"
    /\ unique' = deduplicate(candidates)
    /\ phase' = "deduped"
    /\ UNCHANGED <<candidates, summariseVars, adapterVars, runVars>>

NextDedup == Deduplicate

SpecDedup == InitDedup /\ [][NextDedup]_vars

---------------------------------------------------------------------------
(* 0. the seen-URL store, and 8. main *)

\* The store is the file seen_urls.txt of the repository, read and written
\* through the contents API: [exists, urls, sha], urls being the lines of the
\* file.  The sha names the content
\* of the file: it changes exactly when the content does.  A sha of 0 is "".

\* the link "" (entry.get("link", "")): an empty line of the file
EmptyLink == 0

\* lines 31-50: load_seen_urls; fails: the request or the decoding raises
load_seen_urls(configured, file, fails) ==
    IF ~configured THEN [urls |-> {}, sha |-> 0]
    ELSE IF ~file.exists THEN [urls |-> {}, sha |-> 0]
    ELSE IF fails THEN [urls |-> {}, sha |-> 0]
    ELSE [urls |-> file.urls \ {EmptyLink}, sha |-> file.sha]

\* lines 67-69: the PUT is accepted when the sha sent is the file's sha (no
\* sha for a file that does not exist) and the request gets through
PutAccepted(file, sha, net_ok) ==
    /\ net_ok
    /\ IF file.exists THEN sha = file.sha ELSE sha = 0

\* line 58: the lines of the content "\n".join(sorted(urls)); the content
\* made of the link "" alone is empty, as the one made of no link
FileLines(urls) == IF urls = {EmptyLink} THEN {} ELSE urls

\* lines 53-72: save_seen_urls; the file after the call, and whether it was
\* written (an exception is logged and swallowed)
save_seen_urls(configured, file, urls, sha, net_ok) ==
    IF ~configured THEN [file |-> file, ok |-> FALSE]
    ELSE IF PutAccepted(file, sha, net_ok)
      THEN [file |-> [exists |-> TRUE,
                      urls   |-> FileLines(urls),
                      sha    |-> IF file.exists /\ FileLines(urls) = file.urls
                                   THEN file.sha ELSE file.sha + 1],
            ok |-> TRUE]
    ELSE [file |-> file, ok |-> FALSE]

\* len(new_url_set) > 5000
SeenLimit == 5000

\* set(sorted(S)[-n:]) for a set S of more than n links: the n largest
RECURSIVE KeepLargest(_, _)
KeepLargest(S, n) ==
    IF Cardinality(S) <= n THEN S
    ELSE KeepLargest(S \ {CHOOSE x \in S : \A y \in S : x <= y}, n)

LinkSet(list) == {list[k]["link"] : k \in 1..Len(list)}

\* updated_seen cutting the set at one entry more than the limit
updated_seen_OffByOne(seen, delivered) ==
    LET all == seen \cup LinkSet(delivered)
    IN  IF Cardinality(all) > SeenLimit + 1 THEN KeepLargest(all, SeenLimit + 1) ELSE all

\* lines 616-619: new_url_set
updated_seen(seen, delivered) ==
    LET all == seen \cup LinkSet(delivered)
    IN  IF Cardinality(all) > SeenLimit THEN KeepLargest(all, SeenLimit) ELSE all

\* filter_seen applied to nothing
filter_seen_None(scraped, seen) == scraped

\* line 578: [a for a in scraped_articles if a["link"] not in seen_urls]
filter_seen(scraped, seen) == SelectSeq(scraped, LAMBDA a : a.link \notin seen)

Runs == {1, 2}

\* line 564: seen_urls, seen_sha = load_seen_urls(GITHUB_TOKEN, GITHUB_REPO)
LoadSeen(r, Fails) ==
    /\ phase = "run"
    /\ pc[r] = "start"
    /\ \E fails \in Fails :
          LET res == load_seen_urls(github, store, fails)
          IN  /\ seen_urls' = [seen_urls EXCEPT ![r] = res.urls]
              /\ seen_sha' = [seen_sha EXCEPT ![r] = res.sha]
    /\ sha_at_load' = [sha_at_load EXCEPT ![r] = store.sha]
    /\ pc' = [pc EXCEPT ![r] = "loaded"]
    /\ UNCHANGED <<phase, github, store, run_rss, run_scraped, new_scraped, dedup_arg, all_articles,
                   new_url_set, save_ok, stale, saved_links, runs_started,
                   summariseVars, adapterVars, dedupVars>>

\* the keyword rules of the runs: "5G" and "AI", in every group
RunKeywords ==
    <<[keyword |-> Kw5G, restricted_groups |-> {}],
      [keyword |-> KwAI, restricted_groups |-> {}]>>

\* lines 566-575: lookback, fetch_rss_articles, fetch_scraped_articles on what
\* the feeds and the sites hold (one of FeedLists, one of ScrapeLists)
Fetch(r, FeedLists, ScrapeLists) ==
    /\ phase = "run"
    /\ pc[r] = "loaded"
    /\ \E lookback \in {1, 3}, ff \in FeedLists, sf \in ScrapeLists :
          /\ run_rss' = [run_rss EXCEPT ![r] =
                            fetch_rss_articles(FeedsFrom(ff, FALSE), RunKeywords, lookback)]
          /\ run_scraped' = [run_scraped EXCEPT ![r] =
                            fetch_scraped_articles(TargetsFrom(sf), RunKeywords)]
    /\ pc' = [pc EXCEPT ![r] = "fetched"]
    /\ UNCHANGED <<phase, github, store, seen_urls, seen_sha, new_scraped, dedup_arg,
                   all_articles, new_url_set, save_ok, sha_at_load, stale, saved_links,
                   runs_started,
                   summariseVars, adapterVars, dedupVars>>

\* lines 578-580: scraped_articles = new_scraped
FilterSeen(r) ==
    /\ phase = "run"
    /\ pc[r] = "fetched"
    /\ new_scraped' = [new_scraped EXCEPT ![r] = filter_seen(run_scraped[r], seen_urls[r])]
    /\ pc' = [pc EXCEPT ![r] = "filtered"]
    /\ UNCHANGED <<phase, github, store, seen_urls, seen_sha, run_rss, run_scraped, dedup_arg,
                   all_articles, new_url_set, save_ok, sha_at_load, stale, saved_links,
                   runs_started, summariseVars, adapterVars, dedupVars>>

\* line 583: all_articles = deduplicate(rss_articles + scraped_articles)
Dedup(r) ==
    /\ phase = "run"
    /\ pc[r] = "filtered"
    /\ dedup_arg' = [dedup_arg EXCEPT ![r] = run_rss[r] \o new_scraped[r]]
    /\ all_articles' = [all_articles EXCEPT ![r] = deduplicate(run_rss[r] \o new_scraped[r])]
    /\ pc' = [pc EXCEPT ![r] = "deduped"]
    /\ UNCHANGED <<phase, github, store, seen_urls, seen_sha, run_rss, run_scraped, new_scraped,
                   new_url_set, save_ok, sha_at_load, stale, saved_links, runs_started,
                   summariseVars, adapterVars, dedupVars>>

\* The lists of main hold the same dicts: an article of `list` that is one of
\* the dicts `before` (the list deduplicate returned, of distinct links: the
\* first article of that value in any list of main) reads, once
\* summarise_articles has written into the dicts, as in `after`.
Written(list, before, after) ==
    [n \in 1..Len(list) |->
        IF /\ \E k \in 1..Len(before) : before[k] = list[n]
           /\ \A m \in 1..(n - 1) : list[m] # list[n]
          THEN after[CHOOSE k \in 1..Len(before) : before[k] = list[n]]
          ELSE list[n]]

\* lines 587-589: if all_articles: all_articles = summarise_articles(...);
\* the articles of rss_articles and scraped_articles are the dicts written
SummariseRun(r, FaultChoices) ==
    /\ phase = "run"
    /\ pc[r] = "deduped"
    /\ \E f \in FaultChoices :
          LET before == all_articles[r]
              after  == summarise_written(before, f)
          IN  /\ all_articles' = [all_articles EXCEPT ![r] =
                    IF before # <<>> THEN summarise_articles(before, f) ELSE before]
              /\ run_rss' = [run_rss EXCEPT ![r] = Written(@, before, after)]
              /\ run_scraped' = [run_scraped EXCEPT ![r] = Written(@, before, after)]
              /\ new_scraped' = [new_scraped EXCEPT ![r] = Written(@, before, after)]
              /\ dedup_arg' = [dedup_arg EXCEPT ![r] = Written(@, before, after)]
    /\ pc' = [pc EXCEPT ![r] = "summarised"]
    /\ UNCHANGED <<phase, github, store, seen_urls, seen_sha,
                   new_url_set, save_ok, sha_at_load, stale, saved_links,
                   runs_started, summariseVars, adapterVars, dedupVars>>

\* lines 595-613: the emails; an SMTP exception ends the run
Deliver(r, Outcomes) ==
    /\ phase = "run"
    /\ pc[r] = "summarised"
    /\ \E sent \in Outcomes : pc' = [pc EXCEPT ![r] = IF sent THEN "delivered" ELSE "aborted"]
    /\ UNCHANGED <<phase, github, store, seen_urls, seen_sha, run_rss, run_scraped, new_scraped,
                   dedup_arg, all_articles, new_url_set, save_ok, sha_at_load, stale,
                   saved_links, runs_started, summariseVars, adapterVars, dedupVars>>

\* Save running also when the emails were not all sent
Save_Regardless(r, NetOk) ==
    /\ phase = "run"
    /\ pc[r] \in {"delivered", "aborted"}
    /\ \E net_ok \in NetOk :
          LET new == updated_seen(seen_urls[r], all_articles[r])
              res == save_seen_urls(github, store, new, seen_sha[r], net_ok)
          IN  /\ new_url_set' = [new_url_set EXCEPT ![r] = new]
              /\ store' = res.file
              /\ save_ok' = [save_ok EXCEPT ![r] = res.ok]
              /\ saved_links' = IF res.ok THEN saved_links \cup LinkSet(all_articles[r])
                                ELSE saved_links
    /\ stale' = [stale EXCEPT ![r] = store.sha # sha_at_load[r]]
    /\ pc' = [pc EXCEPT ![r] = "done"]
    /\ UNCHANGED <<phase, github, seen_urls, seen_sha, run_rss, run_scraped, new_scraped, dedup_arg,
                   all_articles, sha_at_load, runs_started,
                   summariseVars, adapterVars, dedupVars>>

\* lines 615-621: new_url_set, save_seen_urls(..., new_url_set, seen_sha)
Save(r, NetOk) ==
    /\ phase = "run"
    /\ pc[r] = "delivered"
    /\ \E net_ok \in NetOk :
          LET new == updated_seen(seen_urls[r], all_articles[r])
              res == save_seen_urls(github, store, new, seen_sha[r], net_ok)
          IN  /\ new_url_set' = [new_url_set EXCEPT ![r] = new]
              /\ store' = res.file
              /\ save_ok' = [save_ok EXCEPT ![r] = res.ok]
              /\ saved_links' = IF res.ok THEN saved_links \cup LinkSet(all_articles[r])
                                ELSE saved_links
    /\ stale' = [stale EXCEPT ![r] = store.sha # sha_at_load[r]]
    /\ pc' = [pc EXCEPT ![r] = "done"]
    /\ UNCHANGED <<phase, github, seen_urls, seen_sha, run_rss, run_scraped, new_scraped, dedup_arg,
                   all_articles, sha_at_load, runs_started,
                   summariseVars, adapterVars, dedupVars>>

\* the next invocation of the program starts
NextRun(r) ==
    /\ phase = "run"
    /\ pc[r] \in {"done", "aborted"}
    /\ runs_started < MaxRuns
    /\ runs_started' = runs_started + 1
    /\ pc' = [pc EXCEPT ![r] = "start"]
    /\ seen_urls' = [seen_urls EXCEPT ![r] = {}]
    /\ seen_sha' = [seen_sha EXCEPT ![r] = 0]
    /\ sha_at_load' = [sha_at_load EXCEPT ![r] = 0]
    /\ run_rss' = [run_rss EXCEPT ![r] = <<>>]
    /\ run_scraped' = [run_scraped EXCEPT ![r] = <<>>]
    /\ new_scraped' = [new_scraped EXCEPT ![r] = <<>>]
    /\ dedup_arg' = [dedup_arg EXCEPT ![r] = <<>>]
    /\ all_articles' = [all_articles EXCEPT ![r] = <<>>]
    /\ new_url_set' = [new_url_set EXCEPT ![r] = {}]
    /\ save_ok' = [save_ok EXCEPT ![r] = FALSE]
    /\ stale' = [stale EXCEPT ![r] = FALSE]
    /\ UNCHANGED <<phase, github, store, saved_links, summariseVars, adapterVars, dedupVars>>

\* the locals of a run that has not started
RunLocalsInit ==
    /\ seen_urls = [r \in Runs |-> {}]
    /\ seen_sha = [r \in Runs |-> 0]
    /\ sha_at_load = [r \in Runs |-> 0]
    /\ run_rss = [r \in Runs |-> <<>>]
    /\ run_scraped = [r \in Runs |-> <<>>]
    /\ new_scraped = [r \in Runs |-> <<>>]
    /\ dedup_arg = [r \in Runs |-> <<>>]
    /\ all_articles = [r \in Runs |-> <<>>]
    /\ new_url_set = [r \in Runs |-> {}]
    /\ save_ok = [r \in Runs |-> FALSE]
    /\ stale = [r \in Runs |-> FALSE]
    /\ saved_links = {}

---------------------------------------------------------------------------
(* Specification SpecRuns: runs of main one after the other, on a store    *)
(* that may be close to its limit of 5000 links                            *)

\* links already in the store: 4998 of them
Filler == 1001..(1000 + SeenLimit - 2)
\* links the feeds and sites hold: two that sort before the stored ones and
\* one that sorts after them
LowLinks == {1, 2}
HighLink == 1000 + SeenLimit + 3
\* the links of the feed entries (one entry has no link) and of the pages
RunFeedLinks == {1, HighLink, EmptyLink}
RunScrapeLinks == {2, HighLink}

\* title of the article with link l: "5g news" and a digit
RunTitle(l) == Txt5gNews \o <<32, 48 + (l % 10)>>

RunFeedEntry(l) ==
    [of |-> 1, times |-> <<<<>>, <<>>>>, title |-> RunTitle(l), summary |-> TxtRain, link |-> l]
RunScrapeLink(l) ==
    [of |-> 1, link_title |-> RunTitle(l), url |-> l, text |-> TxtRain]

\* at most one feed entry, at most one scraped link
FeedListsOf(L) == {<<>>} \cup {<<RunFeedEntry(l)>> : l \in L}
ScrapeListsOf(L) == {<<>>} \cup {<<RunScrapeLink(l)>> : l \in L}

\* the service answers as expected, fails a batch, or returns a second
\* element that is not an object
RunFaultChoices ==
    {<<>>, <<[k |-> "batch_error", at |-> 1]>>, <<[k |-> "not_object", at |-> 2]>>}

NoFile == [exists |-> FALSE, urls |-> {}, sha |-> 0]
FileOf(S) == [exists |-> TRUE, urls |-> S, sha |-> 1]

InitRuns ==
    /\ phase = "run"
    /\ github \in BOOLEAN
    /\ store \in {NoFile, FileOf({}), FileOf(Filler), FileOf(Filler \cup {HighLink})}
    /\ pc = [r \in Runs |-> IF r = 1 THEN "start" ELSE "off"]
    /\ runs_started = 1
    /\ RunLocalsInit
    /\ SummariseIdle
    /\ AdaptersIdle
    /\ DedupIdle

NextRuns ==
    \E r \in Runs :
        \/ LoadSeen(r, BOOLEAN)
        \/ Fetch(r, FeedListsOf(RunFeedLinks), ScrapeListsOf(RunScrapeLinks))
        \/ FilterSeen(r)
        \/ Dedup(r)
        \/ SummariseRun(r, RunFaultChoices)
        \/ Deliver(r, BOOLEAN)
        \/ Save(r, BOOLEAN)
        \/ NextRun(r)

SpecRuns == InitRuns /\ [][NextRuns]_vars

---------------------------------------------------------------------------
(* Specification SpecConcurrent: two runs of main at the same time, every  *)
(* request getting through                                                 *)

InitConcurrent ==
    /\ phase = "run"
    /\ github = TRUE
    /\ store \in {NoFile, FileOf({}), FileOf({HighLink})}
    /\ pc = [r \in Runs |-> "start"]
    /\ runs_started = 2
    /\ RunLocalsInit
    /\ SummariseIdle
    /\ AdaptersIdle
    /\ DedupIdle

NextConcurrent ==
    \E r \in Runs :
        \/ LoadSeen(r, {FALSE})
        \/ Fetch(r, {<<>>}, ScrapeListsOf(LowLinks))
        \/ FilterSeen(r)
        \/ Dedup(r)
        \/ SummariseRun(r, {<<>>})
        \/ Deliver(r, {TRUE})
        \/ Save(r, {TRUE})

SpecConcurrent == InitConcurrent /\ [][NextConcurrent]_vars

---------------------------------------------------------------------------
(* Claims about summarise_articles, checked under SpecSummarise *)

Links(list) == [k \in 1..Len(list) |-> list[k]["link"]]

\* C1: whatever the service answers, the list returned is the input list in
\* its order: N articles, none dropped, none twice.
C1_OutputIsInput ==
    phase = "summarised" => Links(summarised) = Links(articles)

\* C2: every article returned has a non-empty title and a non-empty summary.
C2_TitleAndSummaryNonEmpty ==
    phase = "summarised" =>
        \A k \in 1..Len(summarised) :
            /\ "title" \in DOMAIN summarised[k] /\ summarised[k]["title"] # <<>>
            /\ "summary" \in DOMAIN summarised[k] /\ summarised[k]["summary"] # <<>>

\* start (0-based offset) of the batch holding position k, and k's place in it
BatchStart(k) == ((k - 1) \div BatchSize) * BatchSize
BatchLen(total, i) == IF total - i < BatchSize THEN total - i ELSE BatchSize

\* the answer to the batch request starting at i is a JSON array of objects
\* with title and summary, as long as the batch, summaries of 20 characters
\* or more
WellFormedAnswer(f, total, i) ==
    LET a == BatchAnswer(f, i, BatchLen(total, i))
    IN  /\ ~a.raised
        /\ Len(a.value) = BatchLen(total, i)
        /\ \A j \in 1..Len(a.value) :
              /\ a.value[j].object
              /\ DOMAIN a.value[j].d = {"title", "summary"}
              /\ Len(a.value[j].d["summary"]) >= MinSummaryLen

AllWellFormed ==
    \A k \in 1..Len(articles) : WellFormedAnswer(api, Len(articles), BatchStart(k))

\* C3: when every batch answer is well formed, the output is the input in
\* order and the article at place j of a batch carries the title and the
\* summary of element j of that batch's answer.
C3_WellFormedAligned ==
    (phase = "summarised" /\ AllWellFormed) =>
        /\ Links(summarised) = Links(articles)
        /\ \A k \in 1..Len(summarised) :
              LET i == BatchStart(k)
                  e == BatchAnswer(api, i, BatchLen(Len(articles), i)).value[k - i].d
              IN  /\ summarised[k]["title"] = e["title"]
                  /\ summarised[k]["summary"] = e["summary"]

\* C3 witness: two batches, both answered well, the second article's element
\* differing from the first's
C3_Witness ==
    /\ phase = "summarised"
    /\ AllWellFormed
    /\ Len(articles) > BatchSize
    /\ summarised[BatchSize + 1]["title"] = GenTitle(BatchSize + 1)
    /\ summarised[1]["title"] # summarised[2]["title"]

\* the starts of the batches whose request fails
FailedBatches ==
    {i \in {BatchStart(k) : k \in 1..Len(articles)} :
        BatchAnswer(api, i, BatchLen(Len(articles), i)).raised}

\* the members of a list of articles, or of calls, that belong to the batch
\* starting at i
OfBatch(list, i) == SelectSeq(list, LAMBDA a : BatchStart(a["link"]) = i)
CallsOfBatch(list, i) ==
    SelectSeq(list, LAMBDA c : \/ c = <<"batch", (i \div BatchSize) + 1>>
                               \/ c[1] = "single" /\ BatchStart(c[2]) = i)
NotOfBatch(list, i) == SelectSeq(list, LAMBDA a : BatchStart(a["link"]) # i)

\* the articles as they were passed in: without the title and summary
\* summarise_articles wrote into them
Originals(list) ==
    [k \in 1..Len(list) |-> [link           |-> list[k]["link"],
                             original_title |-> list[k]["original_title"]]]

\* what the service answers when the request of the batch starting at i
\* does not fail, everything else the same
WithoutFailure(f, i) ==
    SelectSeq(f, LAMBDA x : ~(x.k = "batch_error" /\ x.at = (i \div BatchSize) + 1))

\* C12: when the request of a batch fails, one single-article request is
\* made for each article of the batch, in batch order; the batch's articles
\* are returned once each, in order, with their original title and the
\* regenerated summary, or the sentinel summary when the single-article
\* request fails too; the articles of the other batches are returned as they
\* are when the batch does not fail.
C12_FailedBatchDegradesPerArticle ==
    phase = "summarised" =>
        \A i \in FailedBatches :
            LET n   == BatchLen(Len(articles), i)
                got == OfBatch(summarised, i)
            IN  /\ CallsOfBatch(calls, i) =
                      <<<<"batch", (i \div BatchSize) + 1>>>>
                      \o [j \in 1..n |-> <<"single", i + j>>]
                /\ Len(got) = n
                /\ \A j \in 1..n :
                      /\ got[j]["link"] = articles[i + j]["link"]
                      /\ got[j]["title"] = articles[i + j]["original_title"]
                      /\ got[j]["summary"] =
                            IF RetryAnswer(api, i + j).raised
                              THEN Sentinel
                              ELSE Strip(RetryAnswer(api, i + j).value)
                /\ NotOfBatch(summarised, i)
                      = NotOfBatch(summarise_articles(Originals(articles),
                                                      WithoutFailure(api, i)), i)

\* C12 witness: of two batches the first one's request fails; its first
\* article gets the regenerated summary, its second one, whose own request
\* fails too, the sentinel; the second batch gets the generated titles
C12_Witness ==
    /\ phase = "summarised"
    /\ Len(articles) > BatchSize
    /\ FailedBatches = {0}
    /\ RetryAnswer(api, 2).raised
    /\ Len(summarised) = Len(articles)
    /\ summarised[1]["summary"] = Strip(RegenText(1))
    /\ summarised[1]["title"] = articles[1]["original_title"]
    /\ summarised[2]["summary"] = Sentinel
    /\ summarised[BatchSize + 1]["title"] = GenTitle(BatchSize + 1)

---------------------------------------------------------------------------
(* Claims about the keyword matcher and the adapters, under SpecAdapters *)

Range(list) == {list[n] : n \in 1..Len(list)}

\* sub occurs in text: text = before \o sub \o after
IsSubstring(sub, text) ==
    \E i \in 0..Len(text) :
        /\ i + Len(sub) <= Len(text)
        /\ \A k \in 1..Len(sub) : text[i + k] = sub[k]

\* the matcher of the specification, for one rule
RuleMatches(kw, text, group) ==
    /\ IsSubstring(Lower(kw.keyword), Lower(text))
    /\ (kw.restricted_groups = {} \/ group \in kw.restricted_groups)

\* the keywords of kws that match text in group
MatchedSet(kws, text, group) ==
    {kw.keyword : kw \in {r \in Range(kws) : RuleMatches(r, text, group)}}

ArticlesWithLink(list, l) == {a \in Range(list) : a.link = l}

\* the links fetch_scraped_articles fetches: the first of each url, targets
\* in order, as <<target, place>>
FetchedLinks ==
    {p \in {<<c, n>> : c \in 1..Len(scrape_config), n \in 1..MaxEntries + 1} :
        /\ p[2] <= Len(scrape_config[p[1]].links)
        /\ \A q \in {<<c, n>> : c \in 1..Len(scrape_config), n \in 1..MaxEntries + 1} :
              (/\ q[2] <= Len(scrape_config[q[1]].links)
               /\ (q[1] < p[1] \/ (q[1] = p[1] /\ q[2] < p[2])))
              => scrape_config[q[1]].links[q[2]].url # scrape_config[p[1]].links[p[2]].url}

\* the entries fetch_rss_articles does not drop by age, as <<feed, place>>
FreshEntries ==
    {p \in {<<c, n>> : c \in 1..Len(feeds), n \in 1..MaxEntries + 1} :
        /\ ~feeds[p[1]].fails
        /\ p[2] <= Len(feeds[p[1]].entries)
        /\ LET e == feeds[p[1]].entries[p[2]]
               t == IF e.published_parsed # <<>> THEN e.published_parsed
                    ELSE e.updated_parsed
           IN  t = <<>> \/ t[1] >= Now - max_age_days * HoursPerDay}

\* C4: in both adapters a keyword is among an article's matched keywords
\* exactly when its lowercase form is a substring of the lowercased text and
\* its restricted_groups is empty or holds the source's group; an entry or
\* page is kept exactly when that set is not empty.
C4_MatcherPredicate ==
    /\ phase = "rss_done" =>
          \A p \in FreshEntries :
              LET e == feeds[p[1]].entries[p[2]]
                  M == MatchedSet(keywords, e.title \o <<32>> \o e.summary, feeds[p[1]].group)
                  A == ArticlesWithLink(rss_articles, e.link)
              IN  /\ (A # {}) <=> (M # {})
                  /\ \A a \in A : Range(a.matched_keywords) = M
    /\ phase = "scrape_done" =>
          \A p \in FetchedLinks :
              LET l == scrape_config[p[1]].links[p[2]]
                  M == MatchedSet(keywords, l.link_title \o <<32>> \o l.text,
                                  scrape_config[p[1]].group)
                  A == ArticlesWithLink(scraped_articles, l.url)
              IN  l.text # <<>> =>
                    /\ (A # {}) <=> (M # {})
                    /\ \A a \in A : Range(a.matched_keywords) = M

\* C4 witness: a scraped article kept for an unrestricted keyword, whose text
\* also holds a restricted keyword that is not matched because the article's
\* group is outside the keyword's groups
C4_Witness ==
    /\ phase = "scrape_done"
    /\ \E a \in Range(scraped_articles), kw \in Range(keywords), un \in Range(keywords) :
          /\ kw.restricted_groups # {}
          /\ a.group \notin kw.restricted_groups
          /\ IsSubstring(Lower(kw.keyword), Lower(a.original_title \o <<32>> \o a.original_summary))
          /\ kw.keyword \notin Range(a.matched_keywords)
          /\ un.restricted_groups = {}
          /\ un.keyword \in Range(a.matched_keywords)

\* C10: a link whose page cannot be extracted (empty text) yields an article
\* exactly when its link text alone matches a keyword, the article having an
\* empty body.
C10_KeptByLinkText ==
    phase = "scrape_done" =>
        \A p \in FetchedLinks :
            LET l == scrape_config[p[1]].links[p[2]]
                M == MatchedSet(keywords, l.link_title, scrape_config[p[1]].group)
                A == ArticlesWithLink(scraped_articles, l.url)
            IN  l.text = <<>> =>
                  /\ (A # {}) <=> (M # {})
                  /\ \A a \in A : a.original_summary = <<>>

\* the entries of the feeds that parsed, as <<feed, place>>
ParsedEntries ==
    {p \in {<<c, n>> : c \in 1..Len(feeds), n \in 1..MaxEntries + 1} :
        ~feeds[p[1]].fails /\ p[2] <= Len(feeds[p[1]].entries)}

\* the publish timestamp of the specification: the primary date field, else
\* the 'updated' field; <<>> when neither is known
Timestamp(e) ==
    IF e.published_parsed # <<>> THEN e.published_parsed ELSE e.updated_parsed

\* known and older than cutoff = now - maxAgeDays
TooOld(e) == Timestamp(e) # <<>> /\ Timestamp(e)[1] < Now - max_age_days * HoursPerDay

\* C11: an entry that matches a keyword is left out of the feed adapter's
\* result exactly when its publish timestamp (primary field, else 'updated')
\* is known and older than now - max_age_days; an entry without a timestamp
\* is never left out for its age and is stored with published = "unknown".
C11_DroppedByAgeIffKnownAndOld ==
    phase = "rss_done" =>
        \A p \in ParsedEntries :
            LET e == feeds[p[1]].entries[p[2]]
                M == MatchedSet(keywords, e.title \o <<32>> \o e.summary, feeds[p[1]].group)
                A == ArticlesWithLink(rss_articles, e.link)
            IN  M # {} =>
                  /\ (A = {}) <=> TooOld(e)
                  /\ Timestamp(e) = <<>> => \A a \in A : a.published = <<"unknown">>

\* C11 witness: with max_age_days = 1, of two matching entries of one feed
\* the one published five days ago is left out and the one without any date
\* is stored with published = "unknown"
C11_Witness ==
    /\ phase = "rss_done"
    /\ max_age_days = 1
    /\ \E p, q \in ParsedEntries :
          LET e == feeds[p[1]].entries[p[2]]
              u == feeds[q[1]].entries[q[2]]
          IN  /\ p[1] = q[1]
              /\ e.title = u.title /\ e.summary = u.summary
              /\ Timestamp(e) = <<Old>>
              /\ ArticlesWithLink(rss_articles, e.link) = {}
              /\ Timestamp(u) = <<>>
              /\ \E a \in ArticlesWithLink(rss_articles, u.link) : a.published = <<"unknown">>

---------------------------------------------------------------------------
(* Claims about deduplicate, under SpecDedup *)

\* the normalized title key of the specification: lowercase, trimmed, first
\* 60 characters
NormKey(title) ==
    LET trimmed == Strip(Lower(title))
    IN  [k \in 1..(IF Len(trimmed) < 60 THEN Len(trimmed) ELSE 60) |-> trimmed[k]]

SameLinkOrKey(a, b) ==
    a.link = b.link \/ NormKey(a.original_title) = NormKey(b.original_title)

\* the members of list at the places in K, in order
Pick(list, K) ==
    LET idx == SelectSeq([i \in 1..Len(list) |-> i], LAMBDA i : i \in K)
    IN  [n \in 1..Len(idx) |-> list[idx[n]]]

\* C5 as stated: an article is kept exactly when no earlier article of the
\* list, kept or not, has its link or its title key.
C5_KeptIffNoEarlierDuplicate ==
    phase = "deduped" =>
        unique = Pick(candidates,
                      {i \in 1..Len(candidates) :
                          \A k \in 1..(i - 1) : ~SameLinkOrKey(candidates[k], candidates[i])})

\* the places of list before i
Earlier(i) == 1..(i - 1)
SameLink(a, b) == a.link = b.link
SameKey(a, b) == NormKey(a.original_title) = NormKey(b.original_title)

\* C5 amended: an article is kept exactly when no earlier KEPT article has its
\* link or its title key (a dropped article records neither key).  Of the
\* articles sharing a link at most one is kept: the first article with a link
\* is kept unless an earlier kept article has its title key, and when it is
\* kept no later article with that link is; likewise the first article with
\* a title key is kept unless an earlier kept article has its link, and when
\* it is kept no later article with that key is.  The output is the kept
\* articles in input order, with pairwise distinct links and pairwise
\* distinct title keys.
C5_KeptIffNoEarlierKeptDuplicate ==
    phase = "deduped" =>
        /\ \E K \in SUBSET (1..Len(candidates)) :
              /\ \A i \in 1..Len(candidates) :
                    i \in K <=>
                      \A k \in K : k < i => ~SameLinkOrKey(candidates[k], candidates[i])
              /\ unique = Pick(candidates, K)
              /\ \A i \in 1..Len(candidates) :
                    (\A k \in Earlier(i) : ~SameLink(candidates[k], candidates[i])) =>
                        /\ i \in K <=>
                              \A k \in K \cap Earlier(i) : ~SameKey(candidates[k], candidates[i])
                        /\ i \in K =>
                              \A n \in K : SameLink(candidates[n], candidates[i]) => n = i
              /\ \A i \in 1..Len(candidates) :
                    (\A k \in Earlier(i) : ~SameKey(candidates[k], candidates[i])) =>
                        /\ i \in K <=>
                              \A k \in K \cap Earlier(i) : ~SameLink(candidates[k], candidates[i])
                        /\ i \in K =>
                              \A n \in K : SameKey(candidates[n], candidates[i]) => n = i
              /\ \A a, b \in K :
                    a # b => /\ ~SameLink(candidates[a], candidates[b])
                             /\ ~SameKey(candidates[a], candidates[b])
        /\ \A a, b \in 1..Len(unique) :
              a # b => ~SameLinkOrKey(unique[a], unique[b])

\* C5 witness: the second article, the first with its link, is dropped for
\* the title key of the first (another title, the same key once lowercased
\* and trimmed); the third is kept although it has the second one's link
C5_Witness ==
    /\ phase = "deduped"
    /\ Len(candidates) = 3
    /\ ~SameLink(candidates[2], candidates[1])
    /\ SameKey(candidates[2], candidates[1])
    /\ candidates[2].original_title # candidates[1].original_title
    /\ SameLink(candidates[3], candidates[2])
    /\ ~SameKey(candidates[3], candidates[1])
    /\ unique = <<candidates[1], candidates[3]>>

---------------------------------------------------------------------------
(* Claims about main and the seen-URL store, under SpecRuns *)

BeforeDedup == {"off", "start", "loaded", "fetched", "filtered"}

\* C6: within a run, no scraped article whose link is in the set
\* load_seen_urls returned is passed to deduplicate, summarised or delivered;
\* every RSS article is passed to deduplicate, its link in that set or not.
C6_ScrapedSeenFiltered ==
    \A r \in Runs :
        pc[r] \notin BeforeDedup =>
            /\ \A a \in Range(dedup_arg[r]) \cup Range(all_articles[r]) :
                  a["type"] = "scraped" => a["link"] \notin seen_urls[r]
            /\ \A a \in Range(run_rss[r]) : a \in Range(dedup_arg[r])

\* C6 witness: a scraped article was dropped for its seen link while an RSS
\* article with a seen link went on to deduplicate and was delivered
C6_Witness ==
    \E r \in Runs :
        /\ pc[r] = "delivered"
        /\ \E a \in Range(run_scraped[r]) :
              a.link \in seen_urls[r] /\ a \notin Range(dedup_arg[r])
        /\ \E a \in Range(run_rss[r]) :
              a.link \in seen_urls[r] /\ a.link \in LinkSet(all_articles[r])

\* C7: the set passed to save_seen_urls has at most 5000 entries, is within
\* loaded \cup delivered links, and is that union when the union has at most
\* 5000 entries; in the first run and in those that follow.
C7_SavedSetBounded ==
    \A r \in Runs :
        pc[r] = "done" =>
            LET all == seen_urls[r] \cup LinkSet(all_articles[r])
            IN  /\ Cardinality(new_url_set[r]) <= SeenLimit
                /\ new_url_set[r] \subseteq all
                /\ Cardinality(all) <= SeenLimit => new_url_set[r] = all

\* C7 witness: a second run whose union exceeds 5000 entries, after a first
\* run whose union had exactly 5000
C7_Witness ==
    \E r \in Runs :
        /\ pc[r] = "done"
        /\ runs_started = 2
        /\ Cardinality(seen_urls[r]) = SeenLimit
        /\ Cardinality(seen_urls[r] \cup LinkSet(all_articles[r])) > SeenLimit
        /\ Cardinality(new_url_set[r]) = SeenLimit

\* C8: after a run's successful save every link the run delivered (the
\* absent link "" of a feed entry aside) is in the store, truncated or not;
\* and a run that loaded the store delivers no scraped article whose link an
\* earlier run delivered and saved.
C8_DeliveredLinksStored ==
    \A r \in Runs :
        /\ (pc[r] = "done" /\ save_ok[r]) =>
              LinkSet(all_articles[r]) \ {EmptyLink} \subseteq store.urls
        /\ (pc[r] = "delivered" /\ github /\ sha_at_load[r] # 0 /\ seen_sha[r] = sha_at_load[r]) =>
              \A a \in Range(all_articles[r]) :
                  a["type"] = "scraped" => a["link"] \notin saved_links

\* the run has its answer from load_seen_urls
Loaded(r) == pc[r] \notin {"off", "start"}
\* the step filters the run's scraped articles, or sends (or fails to send)
\* its emails
FiltersOrDelivers(r) ==
    \/ pc[r] # "filtered" /\ pc'[r] = "filtered"
    \/ pc[r] = "summarised" /\ pc'[r] # "summarised"
\* the step calls save_seen_urls
SaveAttempted(r) == pc[r] # "done" /\ pc'[r] = "done"

\* C13: in every run, load_seen_urls has returned before the scraped
\* articles are filtered and before anything is delivered; save_seen_urls is
\* called only by a run whose emails were all sent, and only such a call
\* changes the store; a run whose delivery failed calls no save and leaves
\* the store as it is.
C13_LoadFirstSaveAfterDelivery ==
    [][\A r \in Runs :
          /\ FiltersOrDelivers(r) => Loaded(r) /\ seen_urls'[r] = seen_urls[r]
          /\ SaveAttempted(r) => pc[r] = "delivered"
          /\ store' # store => \E q \in Runs : SaveAttempted(q) /\ pc[q] = "delivered"
          /\ pc[r] = "aborted" => ~SaveAttempted(r) /\ store' = store]_vars

\* C13 witness: a run that loaded a non-empty store and had an article to
\* deliver whose link is not stored, and whose delivery failed: the store is
\* as it was loaded
C13_Witness ==
    \E r \in Runs :
        /\ pc[r] = "aborted"
        /\ github
        /\ seen_urls[r] # {}
        /\ all_articles[r] # <<>>
        /\ ~(LinkSet(all_articles[r]) \subseteq store.urls)
        /\ store.sha = sha_at_load[r]
        /\ new_url_set[r] = {}

---------------------------------------------------------------------------
(* Claim about two runs at once, under SpecConcurrent *)

\* C9: when the store changed between a run's load and its save, that run
\* reloads and merges, so that with both runs finished the store holds the
\* links delivered by both.
C9_NoLostUpdate ==
    (/\ \A r \in Runs : pc[r] = "done"
     /\ \E r \in Runs : stale[r])
    => \A r \in Runs : LinkSet(all_articles[r]) \subseteq store.urls

=============================================================================
